---- MODULE Spec2Model ----
(***************************************************************************)
(* Model of caryocar's SpeciesCollectorsNetwork                            *)
(* (src/caryocar/models/speciescollectorsnetwork.py): the bipartite        *)
(* species/collectors graph built from parallel record lists, its cached   *)
(* biadjacency matrix, the vector queries, node removal and the three      *)
(* projection rules.                                                       *)
(*                                                                         *)
(* The class extends networkx.Graph.  The graph is kept as networkx keeps  *)
(* it: `node` is the node -> attribute dictionary, `adj` the symmetric     *)
(* adjacency dictionary node -> neighbour -> edge attribute 'count'.       *)
(*                                                                         *)
(* Numbers.  Thresholds and the weights of the two counting rules are      *)
(* exact rationals <<p, q>> (q > 0, lowest terms).  A cosine similarity is *)
(* the IEEE-754 double that sklearn computes, rounding included.           *)
(***************************************************************************)
EXTENDS Integers, Sequences, FiniteSets, TLC

\* Bounds of the model.
MaxRecords == 3        \* records behind a store that is only queried (SpecUnmutated)
MaxMutRecords == 2     \* records behind a store that is also mutated (Spec)
MaxRawRecords == 2     \* records of an arbitrary constructor call (SpecNew)
MaxCols == 2           \* collectors listed in one record
MaxRemoved == 2        \* ids passed to one remove_nodes_from call

\* Identifiers used by the records.
SpeciesIds == {"s1", "s2"}
CollectorIds == {"c1", "c2", "c3"}
Ids == SpeciesIds \cup CollectorIds

\* A Python value that is not a str (the integer 7), written as a token.
NotStr == {"<7>"}

\* Python's None for an optional argument or attribute: the empty tuple.
None == <<>>

Range(f) == {f[x] : x \in DOMAIN f}

\* Sequences over S of length at most n.
SeqsUpTo(S, n) == UNION {[1..k -> S] : k \in 0..n}

(***************************************************************************)
(* Python helpers                                                          *)
(***************************************************************************)

\* isinstance(x, str)
IsStr(x) == x \notin NotStr

\* Python's order on the str identifiers (lexicographic).
StrRank == [x \in Ids |->
              CASE x = "c1" -> 1 [] x = "c2" -> 2 [] x = "c3" -> 3
                [] x = "s1" -> 4 [] x = "s2" -> 5]

\* sorted(S) for a set of str identifiers
RECURSIVE Sorted(_)
Sorted(S) ==
  IF S = {} THEN <<>>
  ELSE LET m == CHOOSE x \in S : \A y \in S : StrRank[x] <= StrRank[y]
       IN <<m>> \o Sorted(S \ {m})

\* collections.Counter(seq): occurrences of each element of seq
Counter(seq) ==
  [x \in Range(seq) |-> Cardinality({k \in DOMAIN seq : seq[k] = x})]

\* Counter lookup: a missing key counts 0
CounterGet(cnt, x) == IF x \in DOMAIN cnt THEN cnt[x] ELSE 0

\* [ c for cols in collectors for c in cols ]
RECURSIVE Flatten(_)
Flatten(lists) ==
  IF lists = <<>> THEN <<>> ELSE Head(lists) \o Flatten(Tail(lists))

(***************************************************************************)
(* Construction                                                            *)
(***************************************************************************)

\* A collectors entry as the caller passes it: a list (islist) or another
\* iterable such as a tuple, with its items in order.
Items(collectors) == [i \in DOMAIN collectors |-> collectors[i].items]

\* _parseInputData: "ok" or the error raised.  `not` binds tighter than `and`:
\* the first check raises only when some entry is not a list AND every item of
\* every entry is a str.
ParseInputData(species, collectors) ==
  IF (~ \A i \in DOMAIN collectors : collectors[i].islist)
       /\ (\A i \in DOMAIN collectors :
             \A k \in DOMAIN collectors[i].items : IsStr(collectors[i].items[k]))
  THEN "ValueError: collectors format"
  ELSE IF ~ \A i \in DOMAIN species : IsStr(species[i])
  THEN "ValueError: species format"
  ELSE IF Len(species) # Len(collectors)
  THEN "ValueError: different lengths"
  ELSE "ok"

\* namesMap.getMap() applied to every raw collector id; None: no map.
\* A raw id missing from the map raises KeyError.
NamesMapFails(collectors, namesMap) ==
  /\ namesMap # None
  /\ \E i \in DOMAIN collectors : \E k \in DOMAIN collectors[i] :
        collectors[i][k] \notin DOMAIN namesMap[1]

ApplyNamesMap(collectors, namesMap) ==
  IF namesMap = None THEN collectors
  ELSE [i \in DOMAIN collectors |->
          [k \in DOMAIN collectors[i] |-> namesMap[1][collectors[i][k]]]]

\* data = [ (sp,col) for i,sp in enumerate(species) for col in collectors[i] ]
EdgeData(species, collectors) ==
  Flatten([i \in DOMAIN species |->
             [k \in DOMAIN collectors[i] |-> <<species[i], collectors[i][k]>>]])

\* networkx.Graph.__init__(data=edge list): the nodes are the endpoints of
\* the listed edges, and no others.
GraphNodes(data) == {e[1] : e \in Range(data)} \cup {e[2] : e \in Range(data)}

\* The 'bipartite' attribute: species are tagged 1, then collectors 0 (the
\* second assignment wins); set_node_attributes skips ids that are no node.
BipartiteTag(n, species, collectors) ==
  IF n \in Range(Flatten(collectors)) THEN 0 ELSE 1

\* The 'count' attribute: Counter of the collectors items updated (added)
\* with the Counter of species.
NodesCounts(species, collectors) ==
  LET nodes_cols_counts == Counter(Flatten(collectors))
      nodes_sp_counts == Counter(species)
  IN [n \in DOMAIN nodes_cols_counts \cup DOMAIN nodes_sp_counts |->
        CounterGet(nodes_cols_counts, n) + CounterGet(nodes_sp_counts, n)]

\* The edge 'count': every key (u,v) of Counter(data) adds its count to the
\* attribute dictionary the two directions of the edge share.
EdgeCount(data, u, v) ==
  LET edges_counts == Counter(data)
  IN IF u = v THEN CounterGet(edges_counts, <<u, v>>)
     ELSE CounterGet(edges_counts, <<u, v>>) + CounterGet(edges_counts, <<v, u>>)

\* The graph __init__ leaves behind, from species and the (normalized)
\* collectors lists.
BuiltNode(species, collectors) ==
  LET data == EdgeData(species, collectors)
      counts == NodesCounts(species, collectors)
  IN [n \in GraphNodes(data) |->
        [bipartite |-> BipartiteTag(n, species, collectors), count |-> counts[n]]]

BuiltAdj(species, collectors) ==
  LET data == EdgeData(species, collectors)
      nodes == GraphNodes(data)
  IN [u \in nodes |->
        [v \in {w \in nodes : <<u, w>> \in Range(data) \/ <<w, u>> \in Range(data)} |->
           EdgeCount(data, u, v)]]

\* The constructor's outcome for a call: "ok" or the error raised.
InitOutcome(a) ==
  LET parsed == ParseInputData(a.species, a.collectors)
  IN IF parsed # "ok" THEN parsed
     ELSE IF NamesMapFails(Items(a.collectors), a.namesMap) THEN "KeyError"
     ELSE "ok"

(***************************************************************************)
(* State                                                                   *)
(***************************************************************************)
VARIABLES
  args,          \* the constructor call under study: species, collectors, namesMap
  pc,            \* "new": call not run; "ready": store built; "failed": it raised
  node,          \* node id -> [bipartite, count]
  adj,           \* node id -> neighbour id -> edge count
  biadj_matrix,  \* None or <<collector ids, species ids, matrix>>
  biadj_ix,      \* None or <<collector id -> row, species id -> column>>
  out            \* the last call and what it returned or raised

vars == <<args, pc, node, adj, biadj_matrix, biadj_ix, out>>

EmptyDict == <<>>

(***************************************************************************)
(* Inputs                                                                  *)
(***************************************************************************)

\* The name map of the external NamesMap collaborator used by the model: it
\* normalizes the raw id c3 to the canonical id c2.
CanonicalNames == [x \in CollectorIds |-> IF x = "c3" THEN "c2" ELSE x]
NamesMaps == {None, <<CanonicalNames>>}

\* Arbitrary constructor calls: ids that may not be str, entries that may not
\* be lists, lists of different lengths.
RawEntries ==
  {[islist |-> b, items |-> s] :
     b \in BOOLEAN, s \in SeqsUpTo(CollectorIds \cup NotStr, MaxCols)}
RawArgs ==
  {[species |-> sp, collectors |-> co, namesMap |-> nm] :
     sp \in SeqsUpTo(SpeciesIds \cup NotStr, MaxRawRecords),
     co \in SeqsUpTo(RawEntries, MaxRawRecords),
     nm \in NamesMaps}

\* Collectors entries in the documented format: lists of str ids.
ListEntries == {[islist |-> TRUE, items |-> s] : s \in SeqsUpTo(CollectorIds, MaxCols)}

NoArgs == [species |-> <<>>, collectors |-> <<>>, namesMap |-> None]

\* What a call returned or raised ("" when it returned).
Returned(op, arg, ret) == [op |-> op, arg |-> arg, raised |-> "", ret |-> ret]
Raised(op, arg, err) == [op |-> op, arg |-> arg, raised |-> err, ret |-> None]

(***************************************************************************)
(* __init__                                                                *)
(***************************************************************************)

\* The constructor call under study has not run yet.
InitNew ==
  /\ args \in RawArgs
  /\ pc = "new"
  /\ node = EmptyDict
  /\ adj = EmptyDict
  /\ biadj_matrix = None
  /\ biadj_ix = None
  /\ out = Returned("none", None, None)

\* __init__ raises: no store.
ConstructFails ==
  /\ pc = "new"
  /\ InitOutcome(args) # "ok"
  /\ pc' = "failed"
  /\ out' = Raised("__init__", None, InitOutcome(args))
  /\ UNCHANGED <<args, node, adj, biadj_matrix, biadj_ix>>

\* __init__ returns: the graph is built and the matrix cache is empty.
ConstructOk ==
  /\ pc = "new"
  /\ InitOutcome(args) = "ok"
  /\ LET collectors == ApplyNamesMap(Items(args.collectors), args.namesMap)
     IN /\ node' = BuiltNode(args.species, collectors)
        /\ adj' = BuiltAdj(args.species, collectors)
  /\ biadj_matrix' = None
  /\ biadj_ix' = None
  /\ pc' = "ready"
  /\ out' = Returned("__init__", None, None)
  /\ UNCHANGED args

NextNew == ConstructFails \/ ConstructOk

\* The constructor call, from arbitrary arguments.
SpecNew == InitNew /\ [][NextNew]_vars

(***************************************************************************)
(* Rational numbers                                                        *)
(***************************************************************************)
RECURSIVE GCD(_, _)
GCD(a, b) == IF b = 0 THEN a ELSE GCD(b, a % b)

\* p/q in lowest terms (p >= 0, q > 0)
Frac(p, q) == LET g == GCD(p, q) IN <<p \div g, q \div g>>

\* a >= b for rationals with positive denominators
FracGE(a, b) == a[1] * b[2] >= b[1] * a[2]

RECURSIVE SumSeq(_)
SumSeq(s) == IF s = <<>> THEN 0 ELSE Head(s) + SumSeq(Tail(s))

\* Sum of f over the finite set S
RECURSIVE SumOver(_, _)
SumOver(f, S) ==
  IF S = {} THEN 0
  ELSE LET x == CHOOSE y \in S : TRUE IN f[x] + SumOver(f, S \ {x})

(***************************************************************************)
(* IEEE-754 double arithmetic                                              *)
(*                                                                         *)
(* sklearn's cosine_similarity works in 64-bit floats.  A positive double  *)
(* is the record [mant, exp] standing for mant * 2^exp, its 53-bit         *)
(* significand mant written as a natural number in base 2^15 (least        *)
(* significant digit first), since the integers of the checker are 32 bits *)
(* wide; 0.0 has the empty significand.  Every operation computes the      *)
(* exact result and rounds it to nearest, ties to even.                    *)
(***************************************************************************)
DigitBase == 32768

\* 2^n for a small n
RECURSIVE PowerOfTwo(_)
PowerOfTwo(n) == IF n = 0 THEN 1 ELSE 2 * PowerOfTwo(n - 1)

\* A natural number without leading zero digits
RECURSIVE BigNorm(_)
BigNorm(a) ==
  IF a = <<>> \/ a[Len(a)] # 0 THEN a ELSE BigNorm(SubSeq(a, 1, Len(a) - 1))

\* The natural number n < 2^31 in digits
BigOfInt(n) ==
  BigNorm(<<n % DigitBase, (n \div DigitBase) % DigitBase,
            n \div (DigitBase * DigitBase)>>)

BigDigit(a, i) == IF i \in DOMAIN a THEN a[i] ELSE 0

\* Carry propagation over column values below 2^31 - 2^15
RECURSIVE BigCarry(_, _)
BigCarry(cols, carry) ==
  IF cols = <<>>
  THEN IF carry = 0 THEN <<>> ELSE <<carry>>
  ELSE LET t == Head(cols) + carry
       IN <<t % DigitBase>> \o BigCarry(Tail(cols), t \div DigitBase)

BigAdd(a, b) ==
  LET n == IF Len(a) > Len(b) THEN Len(a) ELSE Len(b)
  IN BigCarry([i \in 1..n |-> BigDigit(a, i) + BigDigit(b, i)], 0)

\* a * d for one digit d
BigMulDigit(a, d) == BigNorm(BigCarry([i \in DOMAIN a |-> a[i] * d], 0))

RECURSIVE BigMul(_, _)
BigMul(a, b) ==
  IF b = <<>> \/ a = <<>> THEN <<>>
  ELSE BigAdd(BigMulDigit(a, Head(b)),
              LET rest == BigMul(a, Tail(b))
              IN IF rest = <<>> THEN <<>> ELSE <<0>> \o rest)

\* a < b and a <= b, for numbers without leading zeros
BigLess(a, b) ==
  \/ Len(a) < Len(b)
  \/ /\ Len(a) = Len(b)
     /\ \E i \in DOMAIN a :
          a[i] < b[i] /\ \A j \in (i + 1)..Len(a) : a[j] = b[j]

BigLE(a, b) == a = b \/ BigLess(a, b)

\* 2^k as a digit sequence; a * 2^k; floor(a / 2^k)
BigPowerOfTwo(k) ==
  [i \in 1..((k \div 15) + 1) |-> IF i = (k \div 15) + 1 THEN PowerOfTwo(k % 15) ELSE 0]

BigShiftLeft(a, k) == BigMul(a, BigPowerOfTwo(k))

BigShiftRight(a, k) ==
  LET q == k \div 15
      r == PowerOfTwo(k % 15)
      d == IF Len(a) > q THEN SubSeq(a, q + 1, Len(a)) ELSE <<>>
  IN BigNorm([i \in DOMAIN d |->
                (d[i] \div r) + (BigDigit(d, i + 1) % r) * (DigitBase \div r)])

\* The number of binary digits of a > 0
BigBitLength(a) ==
  (Len(a) - 1) * 15
    + (CHOOSE n \in 1..15 : PowerOfTwo(n - 1) <= a[Len(a)] /\ a[Len(a)] < PowerOfTwo(n))

FloatZero == [mant |-> <<>>, exp |-> 0]

\* The double nearest to q * 2^e (+ something in (0, 2^e) when inexact),
\* ties to even; q > 0.
RoundToDouble(q, e, inexact) ==
  LET len == BigBitLength(q)
  IN IF len <= 53
     THEN [mant |-> BigShiftLeft(q, 53 - len), exp |-> e - (53 - len)]
     ELSE LET d == len - 53
              kept == BigShiftRight(q, d)
              half == BigShiftLeft(BigAdd(BigAdd(kept, kept), <<1>>), d - 1)
              up == \/ BigLess(half, q)
                    \/ q = half /\ (inexact \/ kept[1] % 2 = 1)
              m == IF up THEN BigAdd(kept, <<1>>) ELSE kept
          IN IF BigBitLength(m) = 54
             THEN [mant |-> BigShiftRight(m, 1), exp |-> e + d + 1]
             ELSE [mant |-> m, exp |-> e + d]

\* The largest r with r * r <= n, setting the bits from..to of r (the bits
\* above are set in r already)
RECURSIVE SqrtBits(_, _, _, _)
SqrtBits(n, r, from, to) ==
  IF from < to THEN r
  ELSE IF BigLE(BigMul(BigAdd(r, BigPowerOfTwo(from)), BigAdd(r, BigPowerOfTwo(from))), n)
       THEN SqrtBits(n, BigAdd(r, BigPowerOfTwo(from)), from - 1, to)
       ELSE SqrtBits(n, r, from - 1, to)

\* sqrt(n) for an integer 0 < n < 2^16 (a sum of squares of counts)
FloatSqrt(n) ==
  LET scaled == BigShiftLeft(BigOfInt(n), 108)
      r == SqrtBits(scaled, <<>>, (BigBitLength(scaled) + 1) \div 2, 0)
  IN RoundToDouble(r, -54, BigMul(r, r) # scaled)

\* The largest q with q * d <= n, setting the bits from..to of q
RECURSIVE QuotientBits(_, _, _, _, _)
QuotientBits(n, d, q, from, to) ==
  IF from < to THEN q
  ELSE IF BigLE(BigMul(BigAdd(q, BigPowerOfTwo(from)), d), n)
       THEN QuotientBits(n, d, BigAdd(q, BigPowerOfTwo(from)), from - 1, to)
       ELSE QuotientBits(n, d, q, from - 1, to)

\* v / s for an integer 0 < v < 2^16 and a double s > 0
FloatDivide(v, s) ==
  LET scaled == BigShiftLeft(BigOfInt(v), 108)
      q == QuotientBits(scaled, s.mant, <<>>,
                        BigBitLength(scaled) - BigBitLength(s.mant) + 1, 0)
  IN RoundToDouble(q, -108 - s.exp, BigMul(q, s.mant) # scaled)

\* x * y
FloatMultiply(x, y) ==
  IF x.mant = <<>> \/ y.mant = <<>> THEN FloatZero
  ELSE RoundToDouble(BigMul(x.mant, y.mant), x.exp + y.exp, FALSE)

\* x + y
FloatAdd(x, y) ==
  IF x.mant = <<>> THEN y
  ELSE IF y.mant = <<>> THEN x
  ELSE LET e == IF x.exp < y.exp THEN x.exp ELSE y.exp
       IN RoundToDouble(BigAdd(BigShiftLeft(x.mant, x.exp - e),
                               BigShiftLeft(y.mant, y.exp - e)), e, FALSE)

\* x >= p/q for a double x >= 0 and integers p, q > 0
FloatGE(x, p, q) ==
  /\ x.mant # <<>>
  /\ IF x.exp >= 0
     THEN BigLE(BigOfInt(p), BigMul(BigShiftLeft(x.mant, x.exp), BigOfInt(q)))
     ELSE BigLE(BigShiftLeft(BigOfInt(p), -x.exp), BigMul(x.mant, BigOfInt(q)))

(***************************************************************************)
(* cosine_similarity on count vectors, in doubles                          *)
(***************************************************************************)

\* The cells of a matrix add up to at most MaxCount (every listed collector
\* of every record adds one), and a vector is at most as long as the larger
\* partition.
MaxCount == MaxRecords * MaxCols
CountVectors ==
  UNION {{a \in [1..n -> 0..MaxCount] : SumSeq(a) \in 1..MaxCount} :
           n \in 1..Cardinality(CollectorIds)}

\* sum += X_data[j] * X_data[j]: exact, the counts are small integers
SquaredNorm(a) == SumSeq([k \in DOMAIN a |-> a[k] * a[k]])

\* sqrt(sum), for every squared norm of the model (computed once)
NormTable == [n \in {SquaredNorm(a) : a \in CountVectors} |-> FloatSqrt(n)]

\* X_data[j] /= sum, for every stored cell v of a row of squared norm n
\* (computed once)
NormalizedCellTable ==
  [c \in UNION {{<<a[k], SquaredNorm(a)>> : k \in {j \in DOMAIN a : a[j] # 0}} :
                  a \in CountVectors} |->
     FloatDivide(c[1], NormTable[c[2]])]

\* normalize(X): the row a divided by its norm; cells that are not stored
\* stay 0
Normalized(a) ==
  [k \in DOMAIN a |->
     IF a[k] = 0 THEN FloatZero ELSE NormalizedCellTable[<<a[k], SquaredNorm(a)>>]]

\* safe_sparse_dot(X_normalized, Y_normalized.T), one cell: the products of
\* the cells stored in both rows, added in index order
RECURSIVE FloatDot(_, _, _)
FloatDot(x, y, k) ==
  IF k = 0 THEN FloatZero
  ELSE FloatAdd(FloatDot(x, y, k - 1), FloatMultiply(x[k], y[k]))

\* cosine_similarity for every pair of rows of one matrix of the model
\* (computed once)
CosineTable ==
  [p \in {q \in CountVectors \X CountVectors :
            Len(q[1]) = Len(q[2]) /\ SumSeq(q[1]) + SumSeq(q[2]) <= MaxCount} |->
     FloatDot(Normalized(p[1]), Normalized(p[2]), Len(p[1]))]

(***************************************************************************)
(* Node lists and the biadjacency matrix cache                             *)
(***************************************************************************)

\* listSpeciesNodes() / listCollectorsNodes(): ids tagged 1 / 0
ListSpeciesNodes == {n \in DOMAIN node : node[n].bipartite = 1}
ListCollectorsNodes == {n \in DOMAIN node : node[n].bipartite = 0}

\* A collector node and a species node joined by an edge of the graph
HasRowColumnEdge ==
  \E u \in ListCollectorsNodes : \E v \in ListSpeciesNodes : v \in DOMAIN adj[u]

\* What networkx.bipartite.biadjacency_matrix raises ("" when it returns):
\* NetworkXError for an empty row_order; ValueError when the graph has edges
\* but none from a row node to a column node, since then
\* `row, col, data = zip(*(...))` unpacks an empty zip.  A graph without any
\* edge takes the branch `row, col, data = [], [], []`.
BuildError ==
  IF ListCollectorsNodes = {} THEN "NetworkXError"
  ELSE IF (\E u \in DOMAIN adj : DOMAIN adj[u] # {}) /\ ~HasRowColumnEdge THEN "ValueError"
  ELSE ""

\* _buildBiadjMatrix() raises, out of biadjacency_matrix, before it assigns
\* _biadj_ix and _biadj_matrix.
BuildFails == BuildError # ""

\* _buildBiadjMatrix(): rows are the sorted collectors, columns the sorted
\* species, cell = edge 'count' (0 without an edge).
BuiltMatrix ==
  LET rows == Sorted(ListCollectorsNodes)
      cols == Sorted(ListSpeciesNodes)
  IN <<rows, cols,
       [i \in DOMAIN rows |->
          [j \in DOMAIN cols |->
             IF cols[j] \in DOMAIN adj[rows[i]] THEN adj[rows[i]][cols[j]] ELSE 0]]>>

\* dict( (c,i) for i,c in enumerate(order) ): indices count from 0
IndexOf(order) ==
  [x \in Range(order) |-> (CHOOSE i \in DOMAIN order : order[i] = x) - 1]

BuiltIx == <<IndexOf(Sorted(ListCollectorsNodes)), IndexOf(Sorted(ListSpeciesNodes))>>

\* _getBiadjMatrix(): builds only when there is no cache, then returns a
\* deep copy of the cache.
GetFails == biadj_matrix = None /\ BuildFails
GetError == IF biadj_matrix = None THEN BuildError ELSE ""
MatrixAfterGet == IF biadj_matrix = None THEN BuiltMatrix ELSE biadj_matrix
IxAfterGet == IF biadj_matrix = None THEN BuiltIx ELSE biadj_ix

\* Faulty variant of CacheAfterCallerWrite: the caller is handed the cached
\* matrix itself, so what it writes into the matrix is written into the cache.
CacheSharedWithCaller(cache, m) == <<cache[1], cache[2], m>>

\* return copy.deepcopy(self._biadj_matrix): the cache after the caller has
\* overwritten the cells of the matrix it was handed with m.  The caller
\* holds a copy, so the cache keeps its own cells.
CacheAfterCallerWrite(cache, m) == cache

\* m.transpose()
Transpose(m, ncols) == [j \in 1..ncols |-> [i \in DOMAIN m |-> m[i][j]]]

(***************************************************************************)
(* Vector queries                                                          *)
(***************************************************************************)

\* getSpeciesBag(collector)
GetSpeciesBag(collector) ==
  /\ pc = "ready"
  /\ IF GetFails
     THEN /\ out' = Raised("getSpeciesBag", collector, GetError)
          /\ UNCHANGED <<biadj_matrix, biadj_ix>>
     ELSE /\ biadj_matrix' = MatrixAfterGet
          /\ biadj_ix' = IxAfterGet
          /\ LET M == MatrixAfterGet
                 ix == IxAfterGet
             IN IF collector \notin DOMAIN ix[1]
                THEN out' = Raised("getSpeciesBag", collector, "KeyError")
                ELSE out' = Returned("getSpeciesBag", collector,
                                     <<M[2], M[3][ix[1][collector] + 1]>>)
  /\ UNCHANGED <<args, pc, node, adj>>

\* getInterestVector(species)
GetInterestVector(species) ==
  /\ pc = "ready"
  /\ IF GetFails
     THEN /\ out' = Raised("getInterestVector", species, GetError)
          /\ UNCHANGED <<biadj_matrix, biadj_ix>>
     ELSE /\ biadj_matrix' = MatrixAfterGet
          /\ biadj_ix' = IxAfterGet
          /\ LET M == MatrixAfterGet
                 ix == IxAfterGet
                 m == Transpose(M[3], Len(M[2]))
             IN IF species \notin DOMAIN ix[2]
                THEN out' = Raised("getInterestVector", species, "KeyError")
                ELSE out' = Returned("getInterestVector", species,
                                     <<M[1], m[ix[2][species] + 1]>>)
  /\ UNCHANGED <<args, pc, node, adj>>

(***************************************************************************)
(* remove_nodes_from                                                       *)
(***************************************************************************)

\* networkx.Graph.remove_nodes_from: ids that are no node are skipped
NodeWithout(nd, S) == [n \in DOMAIN nd \ S |-> nd[n]]
AdjWithout(a, S) == [u \in DOMAIN a \ S |-> [v \in DOMAIN a[u] \ S |-> a[u][v]]]

\* Faulty variant of Isolates: the nodes left without neighbours are not collected.
IsolatesNone(a) == {}

\* networkx.isolates: the nodes of degree 0 (a self-loop counts 2)
Isolates(a) == {n \in DOMAIN a : DOMAIN a[n] = {}}

\* remove_nodes_from(nodes): the parent's removal, then every isolate of the
\* graph is removed too.  The matrix cache is left as it is.
RemoveNodesFrom(nodes) ==
  /\ pc = "ready"
  /\ LET isolates == Isolates(AdjWithout(adj, nodes))
     IN /\ node' = NodeWithout(NodeWithout(node, nodes), isolates)
        /\ adj' = AdjWithout(AdjWithout(adj, nodes), isolates)
  /\ out' = Returned("remove_nodes_from", nodes, None)
  /\ UNCHANGED <<args, pc, biadj_matrix, biadj_ix>>

(***************************************************************************)
(* Projections                                                             *)
(***************************************************************************)

\* A weight of the two counting rules: the number (num/den)^(1/root), with
\* root = 1.  (A cosine similarity is a double, see CosineSimilarity.)
Weight(num, den, root) ==
  LET f == Frac(num, den) IN [num |-> f[1], den |-> f[2], root |-> root]

\* w >= thresh, for a weight w >= 0 (a rational or a double) and a rational
\* thresh
WeightGE(w, thresh) ==
  IF "root" \in DOMAIN w THEN FracGE(<<w.num, w.den>>, thresh)
  ELSE thresh[1] <= 0 \/ FloatGE(w, thresh[1], thresh[2])

\* `thresh is None` or the weight reaches it
Passes(w, thresh) == thresh = None \/ WeightGE(w, thresh)

\* The nodes of the target partition with their attribute dictionaries:
\* g.add_nodes_from(self.listSpeciesNodes(data=True)) and its twin.
PartitionNodes(nodesSet) ==
  IF nodesSet = "species" THEN ListSpeciesNodes ELSE ListCollectorsNodes

\* The matrix copy seen from the target partition: one vector per target
\* node, and the ids in index order.
Vectors(M, nodesSet) ==
  IF nodesSet = "species" THEN Transpose(M[3], Len(M[2])) ELSE M[3]
TargetIds(M, nodesSet) == IF nodesSet = "species" THEN M[2] ELSE M[1]

\* Faulty variant of Binarized: the counts are kept instead of being set to 1.
NotBinarized(m) == m

\* m.data = ones: every stored cell becomes 1
Binarized(m) == [i \in DOMAIN m |-> [j \in DOMAIN m[i] |-> IF m[i][j] # 0 THEN 1 ELSE 0]]

Dot(a, b) == SumSeq([k \in DOMAIN a |-> a[k] * b[k]])

\* The graph a rule returns: the partition's nodes with their attributes,
\* the edges, and any further node that add_edge had to create (such a node
\* carries no attributes).
ProjectedGraph(nodesSet, edges) ==
  [nodes |-> PartitionNodes(nodesSet) \cup UNION (DOMAIN edges),
   data |-> [n \in PartitionNodes(nodesSet) |-> node[n]],
   edges |-> edges]

\* g.add_edge(n[i], n[j], weight=w) for the stored cells: the edges for the
\* index pairs of the id list n, weighted by the cells W.
EdgesOf(n, W) ==
  [e \in {{n[p[1]], n[p[2]]} : p \in DOMAIN W} |->
     W[CHOOSE q \in DOMAIN W : e = {n[q[1]], n[q[2]]}]]

\* _projection_simple_weighting on the matrix copy M: upper triangle of the
\* product of the binarized matrix with its transpose, diagonal zeroed,
\* threshold applied, zeros dropped.
SimpleWeightingEdges(M, nodesSet, thresh) ==
  LET n == TargetIds(M, nodesSet)
      v == Binarized(Vectors(M, nodesSet))
      W(i, j) == Weight(Dot(v[i], v[j]), 1, 1)
      kept == {p \in (DOMAIN n) \X (DOMAIN n) :
                 /\ p[1] < p[2]
                 /\ Dot(v[p[1]], v[p[2]]) # 0
                 /\ Passes(W(p[1], p[2]), thresh)}
  IN EdgesOf(n, [p \in kept |-> W(p[1], p[2])])

\* cosine_similarity(m), one cell: the double sklearn computes for the rows
\* a and b (a row without stored cells is not normalized and gives 0.0).
CosineSimilarity(a, b) ==
  IF Dot(a, a) = 0 \/ Dot(b, b) = 0 THEN FloatZero ELSE CosineTable[<<a, b>>]

\* _projection_cosine_similarity on the matrix copy M: cosine of every pair
\* of count vectors, diagonal zeroed, threshold applied, zeros dropped.

CosineSimilarityEdges(M, nodesSet, thresh) ==
  LET n == TargetIds(M, nodesSet)
      v == Vectors(M, nodesSet)
      W(i, j) == CosineSimilarity(v[i], v[j])
      kept == {p \in (DOMAIN n) \X (DOMAIN n) :
                 /\ p[1] # p[2]
                 /\ W(p[1], p[2]) # FloatZero
                 /\ Passes(W(p[1], p[2]), thresh)}
  IN EdgesOf(n, [p \in kept |-> W(p[1], p[2])])

\* _projection_additive_weighting reads the graph itself, not the matrix.
\* u_nbrs_i: the nodes two hops from u, u excluded
TwoHop(u) == (UNION {DOMAIN adj[v] : v \in DOMAIN adj[u]}) \ {u}

\* Faulty variant of AdditiveWeight: only the counts on u's side are added.
AdditiveWeightOneSided(u, v) ==
  LET common_nodes_o == DOMAIN adj[u] \cap DOMAIN adj[v]
  IN Weight(SumOver([n \in common_nodes_o |-> adj[u][n] + adj[u][n]], common_nodes_o), 2, 1)

\* sum( (self[u][n]['count'] + self[v][n]['count'])/2 for n in common_nodes_o )
AdditiveWeight(u, v) ==
  LET common_nodes_o == DOMAIN adj[u] \cap DOMAIN adj[v]
  IN Weight(SumOver([n \in common_nodes_o |-> adj[u][n] + adj[v][n]], common_nodes_o), 2, 1)

\* Faulty variant of AdditiveRaises: a missing threshold always raises.
AdditiveRaisesAlways(nodesSet, thresh) == thresh = None

\* `weight >= thresh` with thresh None raises TypeError; it is evaluated as
\* soon as some node has a two-hop neighbour.
AdditiveRaises(nodesSet, thresh) ==
  thresh = None /\ \E u \in PartitionNodes(nodesSet) : TwoHop(u) # {}

\* g.add_edge(u, v) for a two-hop neighbour v that is no node of g inserts v
\* into g while `for u in nodes` iterates g.nodes(), a live view of g's node
\* dictionary: the next step of the loop raises RuntimeError (dictionary
\* changed size during iteration), also when u was the last node.
AdditiveGrows(nodesSet, thresh) ==
  /\ thresh # None
  /\ \E u \in PartitionNodes(nodesSet) :
       \E v \in TwoHop(u) \ PartitionNodes(nodesSet) : WeightGE(AdditiveWeight(u, v), thresh)

\* The edges of g when the loop ends.  The nodes are visited in the order
\* `order`; each visit (u,v) that reaches the threshold writes the edge, so
\* the last such visit of a pair decides its weight.  (The loop ends by
\* returning g only when neither AdditiveRaises nor AdditiveGrows holds;
\* every edge then joins two nodes of the partition.)
AdditiveWeightingEdges(order, nodesSet, thresh) ==
  LET Pos(x) == CHOOSE i \in DOMAIN order : order[i] = x
      visits == {p \in PartitionNodes(nodesSet) \X (DOMAIN node) :
                   p[2] \in TwoHop(p[1]) /\ Passes(AdditiveWeight(p[1], p[2]), thresh)}
  IN [e \in {{p[1], p[2]} : p \in visits} |->
        LET last == CHOOSE p \in visits :
                      /\ {p[1], p[2]} = e
                      /\ \A q \in visits : {q[1], q[2]} = e => Pos(q[1]) <= Pos(p[1])
        IN AdditiveWeight(last[1], last[2])]

\* The orders in which a set of nodes can be listed
Orders(S) == {o \in [1..Cardinality(S) -> S] : Range(o) = S}

\* The selectors and thresholds the model calls project with.
NodesSets == {"species", "collectors"}
Rules == {"simple_weighting", "additive_weighting", "cosine_similarity"}
Thresholds == {None, <<1, 1>>, <<3, 2>>}

\* project(nodesSet, rule, thresh)
Project(nodesSet, rule, thresh) ==
  LET call == <<nodesSet, rule, thresh>> IN
  /\ pc = "ready"
  /\ IF nodesSet \notin {"species", "collectors"}
     THEN /\ out' = Raised("project", call, "ValueError")
          /\ UNCHANGED <<biadj_matrix, biadj_ix>>
     ELSE IF rule = "simple_weighting"
     THEN IF GetFails
          THEN /\ out' = Raised("project", call, GetError)
               /\ UNCHANGED <<biadj_matrix, biadj_ix>>
          ELSE /\ biadj_matrix' = CacheAfterCallerWrite(MatrixAfterGet,
                                                         Binarized(MatrixAfterGet[3]))
               /\ biadj_ix' = IxAfterGet
               /\ out' = Returned("project", call,
                           ProjectedGraph(nodesSet,
                             SimpleWeightingEdges(MatrixAfterGet, nodesSet, thresh)))
     ELSE IF rule = "additive_weighting"
     THEN /\ IF AdditiveRaises(nodesSet, thresh)
             THEN out' = Raised("project", call, "TypeError")
             ELSE IF AdditiveGrows(nodesSet, thresh)
             THEN out' = Raised("project", call, "RuntimeError")
             ELSE \E order \in Orders(PartitionNodes(nodesSet)) :
                    out' = Returned("project", call,
                             ProjectedGraph(nodesSet,
                               AdditiveWeightingEdges(order, nodesSet, thresh)))
          /\ UNCHANGED <<biadj_matrix, biadj_ix>>
     ELSE IF rule = "cosine_similarity"
     THEN IF GetFails
          THEN /\ out' = Raised("project", call, GetError)
               /\ UNCHANGED <<biadj_matrix, biadj_ix>>
          ELSE /\ biadj_matrix' = MatrixAfterGet
               /\ biadj_ix' = IxAfterGet
               /\ out' = Returned("project", call,
                           ProjectedGraph(nodesSet,
                             CosineSimilarityEdges(MatrixAfterGet, nodesSet, thresh)))
     ELSE /\ out' = Raised("project", call, "ValueError")
          /\ UNCHANGED <<biadj_matrix, biadj_ix>>
  /\ UNCHANGED <<args, pc, node, adj>>

(***************************************************************************)
(* Specifications of the constructed store                                 *)
(***************************************************************************)

\* The state __init__ leaves for a call of at most n records that meets the
\* preconditions (str ids, lists, equal lengths, no name map).  The
\* store keeps no reference to the caller's lists.
Constructed(n) ==
  \E k \in 0..n :
    \E species \in [1..k -> SpeciesIds], entries \in [1..k -> ListEntries] :
      LET collectors == Items(entries)
      IN /\ args = NoArgs
         /\ pc = "ready"
         /\ node = BuiltNode(species, collectors)
         /\ adj = BuiltAdj(species, collectors)
         /\ biadj_matrix = None
         /\ biadj_ix = None
         /\ out = Returned("__init__", None, None)

Queries ==
  \/ \E c \in Ids : GetSpeciesBag(c)
  \/ \E s \in Ids : GetInterestVector(s)
  \/ \E nodesSet \in NodesSets, rule \in Rules, thresh \in Thresholds :
       Project(nodesSet, rule, thresh)

Removal ==
  \E nodes \in {S \in SUBSET Ids : Cardinality(S) <= MaxRemoved} : RemoveNodesFrom(nodes)

Next == Queries \/ Removal

\* Any sequence of queries, projections and removals on a constructed store.
Init == Constructed(MaxMutRecords)
Spec == Init /\ [][Next]_vars

\* Queries and projections on a store that is never mutated.
InitUnmutated == Constructed(MaxRecords)
SpecUnmutated == InitUnmutated /\ [][Queries]_vars

(***************************************************************************)
(* Properties of the constructor (checked under SpecNew)                   *)
(***************************************************************************)

\* The documented preconditions of a constructor call.
Preconditions(a) ==
  /\ Len(a.species) = Len(a.collectors)
  /\ \A i \in DOMAIN a.species : IsStr(a.species[i])
  /\ \A i \in DOMAIN a.collectors :
       /\ a.collectors[i].islist
       /\ \A k \in DOMAIN a.collectors[i].items : IsStr(a.collectors[i].items[k])

\* The store was built from a call that meets the preconditions.
BuiltFromValid == pc = "ready" /\ Preconditions(args)

\* The collectors lists the graph is built from (after name normalization).
ArgCollectors == ApplyNamesMap(Items(args.collectors), args.namesMap)

\* The records in which species s and collector c occur together.
RecordsWith(s, c) ==
  {i \in DOMAIN args.species : args.species[i] = s /\ c \in Range(ArgCollectors[i])}

\* The records that list collector c (once per record).
RecordsListing(c) == {i \in DOMAIN ArgCollectors : c \in Range(ArgCollectors[i])}

HasEdge(u, v) == u \in DOMAIN adj /\ v \in DOMAIN adj[u]

\* The current edge count of (u,v), 0 without an edge.
EdgeCountNow(u, v) == IF HasEdge(u, v) THEN adj[u][v] ELSE 0

\* C1: a species and a collector that occur together in k >= 1 records are
\* joined by one edge whose count is k; a pair that never occurs together has
\* no edge.
C1_EdgeCountIsRecordCount ==
  BuiltFromValid =>
    \A s \in SpeciesIds, c \in CollectorIds :
      LET k == Cardinality(RecordsWith(s, c))
      IN IF k >= 1
         THEN HasEdge(s, c) /\ HasEdge(c, s) /\ adj[s][c] = k /\ adj[c][s] = k
         ELSE ~HasEdge(s, c) /\ ~HasEdge(c, s)

\* C2: the count of a collector node is the number of records that list the
\* collector, once per record; so the counts of the collector nodes add up to
\* the number of (record, collector) pairs after within-record deduplication.
C2_CollectorCountOncePerRecord ==
  BuiltFromValid =>
    /\ \A c \in ListCollectorsNodes : node[c].count = Cardinality(RecordsListing(c))
    /\ SumOver([c \in ListCollectorsNodes |-> node[c].count], ListCollectorsNodes)
         = SumSeq([i \in DOMAIN ArgCollectors |-> Cardinality(Range(ArgCollectors[i]))])

\* C3: every identifier of the input is a node with its partition tag, also a
\* species whose records all have an empty collectors list.
C3_EveryInputIdIsNode ==
  BuiltFromValid =>
    /\ \A i \in DOMAIN args.species :
         args.species[i] \in DOMAIN node /\ node[args.species[i]].bipartite = 1
    /\ \A i \in DOMAIN ArgCollectors : \A c \in Range(ArgCollectors[i]) :
         c \in DOMAIN node /\ node[c].bipartite = 0

\* C10: a call that breaks a precondition fails with a validation error and
\* leaves no store.
C10_InvalidInputRejected ==
  (pc # "new" /\ ~Preconditions(args)) =>
    /\ pc = "failed"
    /\ out.raised \in {"ValueError: collectors format", "ValueError: species format",
                       "ValueError: different lengths"}
    /\ DOMAIN node = {}

(***************************************************************************)
(* Properties of the constructed store (checked under Spec)                *)
(***************************************************************************)

\* C4: an existing matrix cache lists exactly the current collector nodes as
\* rows and the current species nodes as columns, every cell is the current
\* edge count, and getSpeciesBag returns the current counts.
C4_CacheFresh ==
  /\ biadj_matrix # None =>
       /\ Range(biadj_matrix[1]) = ListCollectorsNodes
       /\ Range(biadj_matrix[2]) = ListSpeciesNodes
       /\ \A i \in DOMAIN biadj_matrix[1], j \in DOMAIN biadj_matrix[2] :
            biadj_matrix[3][i][j] = EdgeCountNow(biadj_matrix[1][i], biadj_matrix[2][j])
  /\ (out.op = "getSpeciesBag" /\ out.raised = "") =>
       \A j \in DOMAIN out.ret[1] : out.ret[2][j] = EdgeCountNow(out.arg, out.ret[1][j])

\* C5: remove_nodes_from(S) removes exactly S and the nodes outside S that had
\* a neighbour before the call and have none once S is gone; a node outside S
\* without neighbours before the call stays, and every other node stays with
\* its attributes and its remaining edges and counts.
C5_Removed(S) ==
  (DOMAIN node \cap S)
    \cup {n \in DOMAIN node \ S : DOMAIN adj[n] # {} /\ DOMAIN adj[n] \subseteq S}

C5_RemoveStep ==
  out'.op = "remove_nodes_from" =>
    LET S == out'.arg
    IN /\ DOMAIN node' = DOMAIN node \ C5_Removed(S)
       /\ DOMAIN adj' = DOMAIN node'
       /\ \A n \in DOMAIN node \ S : DOMAIN adj[n] = {} => n \in DOMAIN node'
       /\ \A n \in DOMAIN node' :
            /\ node'[n] = node[n]
            /\ DOMAIN adj'[n] = DOMAIN adj[n] \ S
            /\ \A v \in DOMAIN adj'[n] : adj'[n][v] = adj[n][v]

C5_RemoveExactly == [][C5_RemoveStep]_vars

\* A removal of c2 alone has also taken s2 away: the matrix built earlier
\* still lists c1, c2 and s1, s2, with s2 recorded by c2 only.
C5_Witness ==
  /\ out.op = "remove_nodes_from"
  /\ out.arg = {"c2"}
  /\ biadj_matrix = <<(<<"c1", "c2">>), (<<"s1", "s2">>), (<<(<<1, 0>>), (<<1, 1>>)>>)>>
  /\ DOMAIN node = {"c1", "s1"}
  /\ adj["c1"]["s1"] = 1

\* C6: the graph project returns has exactly the current nodes of the target
\* partition as nodes, and every edge joins two distinct nodes of that set.
C6_ProjectionOverCurrentNodes ==
  (out.op = "project" /\ out.raised = "") =>
    /\ out.ret.nodes = PartitionNodes(out.arg[1])
    /\ \A e \in DOMAIN out.ret.edges :
         Cardinality(e) = 2 /\ e \subseteq PartitionNodes(out.arg[1])

(***************************************************************************)
(* Properties of the projections                                           *)
(***************************************************************************)

\* The neighbours two nodes of the store have in common.
Common(u, v) == DOMAIN adj[u] \cap DOMAIN adj[v]

\* The unordered pairs of distinct nodes of a set.
PairsOf(P) == {e \in SUBSET P : Cardinality(e) = 2}

\* Twice the additive weight of the claim: the sum, over the common
\* neighbours n, of count(u,n) + count(v,n), read from the store's edges.
TwiceAdditive(u, v) ==
  SumOver([n \in Common(u, v) |-> EdgeCountNow(u, n) + EdgeCountNow(v, n)], Common(u, v))

\* The squared cosine of the count vectors of u and v over the nodes O.
SquaredCosine(u, v, O) ==
  LET dot == SumOver([n \in O |-> EdgeCountNow(u, n) * EdgeCountNow(v, n)], O)
      nu == SumOver([n \in O |-> EdgeCountNow(u, n) * EdgeCountNow(u, n)], O)
      nv == SumOver([n \in O |-> EdgeCountNow(v, n) * EdgeCountNow(v, n)], O)
  IN IF nu = 0 \/ nv = 0 THEN <<0, 1>> ELSE Frac(dot * dot, nu * nv)

\* The weight each rule assigns to a pair of nodes, stated from the store:
\* the number (num/den)^(1/root); the cosine similarity is the root of its
\* rational square.
RuleWeight(rule, u, v) ==
  IF rule = "simple_weighting"
  THEN [num |-> Cardinality(Common(u, v)), den |-> 1, root |-> 1]
  ELSE IF rule = "additive_weighting"
  THEN LET f == Frac(TwiceAdditive(u, v), 2) IN [num |-> f[1], den |-> f[2], root |-> 1]
  ELSE LET f == SquaredCosine(u, v, DOMAIN node \ PartitionNodes(
                                      IF node[u].bipartite = 1 THEN "species" ELSE "collectors"))
       IN [num |-> f[1], den |-> f[2], root |-> 2]

\* w >= t for a rule weight w and a rational threshold t, in exact arithmetic.
RuleWeightGE(w, t) ==
  IF w.root = 1 THEN FracGE(<<w.num, w.den>>, t)
  ELSE t[1] <= 0 \/ w.num * t[2] * t[2] >= t[1] * t[1] * w.den

\* The store of the documented example.
ExampleSpecies == <<"s1", "s2", "s2">>
ExampleCollectors == <<(<<"c1", "c2">>), (<<"c1">>), (<<"c2", "c3">>)>>
IsExampleStore ==
  /\ node = BuiltNode(ExampleSpecies, ExampleCollectors)
  /\ adj = BuiltAdj(ExampleSpecies, ExampleCollectors)

\* The general rule of C7 for the edges E returned over the partition P.
C7_CommonNeighbourRule(P, E) ==
  /\ DOMAIN E \subseteq PairsOf(P)
  /\ \A u \in P, v \in P :
       u # v =>
         LET k == Cardinality(Common(u, v))
         IN /\ {u, v} \in DOMAIN E <=> k >= 1
            /\ k >= 1 =>
                 /\ E[{u, v}] = [num |-> k, den |-> 1, root |-> 1]
                 /\ k <= Cardinality(DOMAIN adj[u])
                 /\ k <= Cardinality(DOMAIN adj[v])

\* A simple_weighting projection without threshold has returned.
C7_Case ==
  /\ out.op = "project"
  /\ out.raised = ""
  /\ out.arg[2] = "simple_weighting"
  /\ out.arg[3] = None

\* C7 as stated: on an unmutated store, simple_weighting without a threshold
\* joins two distinct nodes of the partition exactly when they have a common
\* neighbour, with the number of common neighbours as weight (between 1 and
\* the smaller of the two degrees); in the documented example the collectors
\* projection is exactly (c1,c2) with weight 2 and (c2,c3) with weight 1.
C7_AsStated ==
  C7_Case =>
    /\ C7_CommonNeighbourRule(PartitionNodes(out.arg[1]), out.ret.edges)
    /\ (IsExampleStore /\ out.arg[1] = "collectors") =>
         out.ret.edges = ({"c1", "c2"} :> [num |-> 2, den |-> 1, root |-> 1]
                            @@ {"c2", "c3"} :> [num |-> 1, den |-> 1, root |-> 1])

\* C7 amended: the same rule; in the documented example c1 and c3 both
\* recorded s2, so the collectors projection is (c1,c2) with weight 2,
\* (c1,c3) with weight 1 and (c2,c3) with weight 1.
C7_SimpleWeightIsCommonNeighbours ==
  C7_Case =>
    /\ C7_CommonNeighbourRule(PartitionNodes(out.arg[1]), out.ret.edges)
    /\ (IsExampleStore /\ out.arg[1] = "collectors") =>
         out.ret.edges = ({"c1", "c2"} :> [num |-> 2, den |-> 1, root |-> 1]
                            @@ {"c1", "c3"} :> [num |-> 1, den |-> 1, root |-> 1]
                            @@ {"c2", "c3"} :> [num |-> 1, den |-> 1, root |-> 1])

\* The collectors projection of the documented example has been computed.
C7_Witness ==
  /\ IsExampleStore
  /\ C7_Case
  /\ out.arg[1] = "collectors"
  /\ {"c1", "c3"} \in DOMAIN out.ret.edges

\* C8: additive_weighting gives every pair of distinct nodes of the partition
\* that shares a neighbour the weight sum((count(u,n) + count(v,n)) / 2) over
\* the common neighbours n, read from the current edges; the weight is the
\* same from either end, the edge carries it whatever the visiting order, and
\* a pair without a common neighbour gets no edge.
C8_AdditiveWeightFromStore ==
  (out.op = "project" /\ out.raised = "" /\ out.arg[2] = "additive_weighting") =>
    LET P == PartitionNodes(out.arg[1])
        E == out.ret.edges
        t == out.arg[3]
    IN /\ DOMAIN E \subseteq PairsOf(P)
       /\ \A u \in P, v \in P :
            u # v =>
              /\ TwiceAdditive(u, v) = TwiceAdditive(v, u)
              /\ Common(u, v) = {} => {u, v} \notin DOMAIN E
              /\ {u, v} \in DOMAIN E =>
                   /\ E[{u, v}].root = 1
                   /\ E[{u, v}].num * 2 = TwiceAdditive(u, v) * E[{u, v}].den
              /\ (/\ Common(u, v) # {}
                  /\ t # None
                  /\ TwiceAdditive(u, v) * t[2] >= 2 * t[1]) => {u, v} \in DOMAIN E

\* An additive projection on collectors whose edge (c1,c2) weighs 3/2: the
\* counts of (c1,s1) and (c2,s1) are 2 and 1.
C8_Witness ==
  /\ out.op = "project"
  /\ out.raised = ""
  /\ out.arg[1] = "collectors"
  /\ out.arg[2] = "additive_weighting"
  /\ {"c1", "c2"} \in DOMAIN out.ret.edges
  /\ out.ret.edges[{"c1", "c2"}] = [num |-> 3, den |-> 2, root |-> 1]
  /\ EdgeCountNow("c1", "s1") = 2
  /\ EdgeCountNow("c2", "s1") = 1

\* The edges project returns in the current state for a rule and threshold.
ProjectEdges(nodesSet, rule, thresh) ==
  IF rule = "simple_weighting" THEN SimpleWeightingEdges(MatrixAfterGet, nodesSet, thresh)
  ELSE IF rule = "cosine_similarity" THEN CosineSimilarityEdges(MatrixAfterGet, nodesSet, thresh)
  ELSE AdditiveWeightingEdges(Sorted(PartitionNodes(nodesSet)), nodesSet, thresh)

\* C9: on an unmutated store, for each of the three rules, the edges
\* returned for a threshold t are exactly the pairs whose rule weight is
\* positive and at least t (a weight equal to t is kept), the counting
\* rules giving exactly that weight; so they are among the edges returned
\* for any smaller threshold, with the same weights.
C9_ThresholdInclusive ==
  (out.op = "project" /\ out.raised = "" /\ out.arg[3] # None) =>
    LET P == PartitionNodes(out.arg[1])
        rule == out.arg[2]
        t == out.arg[3]
        E == out.ret.edges
        kept == {e \in PairsOf(P) :
                   \E u \in e, v \in e :
                     /\ u # v
                     /\ RuleWeight(rule, u, v).num > 0
                     /\ RuleWeightGE(RuleWeight(rule, u, v), t)}
    IN /\ DOMAIN E = kept
       /\ \A u \in P, v \in P :
            (u # v /\ {u, v} \in kept /\ rule # "cosine_similarity") =>
              E[{u, v}] = RuleWeight(rule, u, v)
       /\ \A t1 \in Thresholds \ {None} :
            (~FracGE(t1, t)) =>
              LET E1 == ProjectEdges(out.arg[1], rule, t1)
              IN \A e \in DOMAIN E : e \in DOMAIN E1 /\ E1[e] = E[e]

(***************************************************************************)
(* Stores built from records that reuse an identifier in both roles        *)
(***************************************************************************)

MaxSharedRecords == 2  \* records behind a store whose ids may be shared (SpecShared)

\* The preconditions only ask for str ids: nothing keeps a species id from
\* being a collector id as well.  Here the species of a record is s1, s2 or
\* the id c1, which collectors lists use too.
SharedSpeciesIds == SpeciesIds \cup {"c1"}

\* The state __init__ leaves for such a call of at most MaxSharedRecords
\* records.
InitShared ==
  \E k \in 0..MaxSharedRecords :
    \E species \in [1..k -> SharedSpeciesIds], entries \in [1..k -> ListEntries] :
      LET collectors == Items(entries)
      IN /\ args = [species |-> species, collectors |-> entries, namesMap |-> None]
         /\ pc = "ready"
         /\ node = BuiltNode(species, collectors)
         /\ adj = BuiltAdj(species, collectors)
         /\ biadj_matrix = None
         /\ biadj_ix = None
         /\ out = Returned("__init__", None, None)

\* Construction followed by any sequence of remove_nodes_from calls.
SpecShared == InitShared /\ [][Removal]_vars

\* The same stores without the record of the call that built them.
InitSharedStore ==
  \E k \in 0..MaxSharedRecords :
    \E species \in [1..k -> SharedSpeciesIds], entries \in [1..k -> ListEntries] :
      LET collectors == Items(entries)
      IN /\ args = NoArgs
         /\ pc = "ready"
         /\ node = BuiltNode(species, collectors)
         /\ adj = BuiltAdj(species, collectors)
         /\ biadj_matrix = None
         /\ biadj_ix = None
         /\ out = Returned("__init__", None, None)

\* Queries and projections on such a store.  A store whose edges all lie
\* inside the collectors' partition (species=['c1'], collectors=[['c1']])
\* makes every matrix query raise ValueError, and a two-hop neighbour
\* outside the target partition (species=['s1','c1'],
\* collectors=[['c1'],['c2']]) makes additive_weighting raise RuntimeError.
SpecSharedQueried == InitSharedStore /\ [][Queries]_vars

\* Any sequence of queries, projections and removals on such a store; the
\* stores of Spec (disjoint ids) are among them.
SpecSharedMutated == InitSharedStore /\ [][Next]_vars

\* C11: in every state reached by construction from inputs meeting the
\* preconditions (an id may be both a species and a collector) followed by
\* removals, every node carries one partition tag and every edge joins a
\* species-tagged node and a collector-tagged node: no edge inside one
\* partition, no self-loop.
C11_BipartiteEdges ==
  (pc = "ready" /\ Preconditions(args)) =>
    /\ \A n \in DOMAIN node : node[n].bipartite \in {0, 1}
    /\ \A u \in DOMAIN adj : \A v \in DOMAIN adj[u] :
         /\ u # v
         /\ node[u].bipartite # node[v].bipartite

(***************************************************************************)
(* CoworkingNetwork (src/caryocar/models/coworkingnetwork.py)              *)
(*                                                                         *)
(* The collector-collector graph built from the cliques of names.  Its     *)
(* constructor is modelled on the same graph variables: `node` maps a name *)
(* to its attributes (only 'count'), `adj` holds the edge counts; the      *)
(* matrix cache does not exist in this class and stays None.               *)
(***************************************************************************)

MaxCliques == 2        \* cliques passed to CoworkingNetwork
MaxCliqueSize == 2     \* names listed in one clique

\* Faulty variant of UniqueNames: the clique is kept as listed, repeats included.
UniqueNamesKept(nset) == nset

\* list(set(nset)): the names of a clique, each once.  The iteration order of
\* a set is arbitrary; it only decides the orientation (u,v) of the pairs,
\* and both orientations of an edge share one attribute dictionary.
UniqueNames(nset) == Sorted(Range(nset))

\* itertools.combinations(n, r=2): the pairs (n[i], n[j]), i < j, in order
RECURSIVE Combinations(_)
Combinations(n) ==
  IF Len(n) < 2 THEN <<>>
  ELSE [k \in 1..(Len(n) - 1) |-> <<n[1], n[k + 1]>>] \o Combinations(Tail(n))

\* data = [ edge for edgesList in edgesLists for edge in edgesList ]
CliquesEdgeData(cliques) ==
  Flatten([i \in DOMAIN cliques |-> Combinations(cliques[i])])

\* The graph CoworkingNetwork.__init__ leaves behind, from the cliques after
\* normalization and deduplication: the nodes of the edge list plus the keys
\* of nodes_counts (add_nodes_from), each with its 'count'.
CwnBuiltNode(cliques) ==
  LET nodes_counts == Counter(Flatten(cliques))
  IN [n \in GraphNodes(CliquesEdgeData(cliques)) \cup DOMAIN nodes_counts |->
        IF n \in DOMAIN nodes_counts THEN [count |-> nodes_counts[n]] ELSE EmptyDict]

CwnBuiltAdj(cliques) ==
  LET data == CliquesEdgeData(cliques)
      nodes == GraphNodes(data) \cup Range(Flatten(cliques))
  IN [u \in nodes |->
        [v \in {w \in nodes : <<u, w>> \in Range(data) \/ <<w, u>> \in Range(data)} |->
           EdgeCount(data, u, v)]]

\* The constructor calls of the model: cliques omitted (None) or a list of
\* lists of names, with or without a name map.
CwnArgs ==
  {[cliques |-> cl, namesMap |-> nm] :
     cl \in {None} \cup {<<c>> : c \in SeqsUpTo(SeqsUpTo(CollectorIds, MaxCliqueSize), MaxCliques)},
     nm \in NamesMaps}

\* The constructor's outcome: without cliques the count loop iterates over
\* None and raises TypeError; a name missing from the map raises KeyError.
CwnInitOutcome(a) ==
  IF a.cliques = None THEN "TypeError"
  ELSE IF NamesMapFails(a.cliques[1], a.namesMap) THEN "KeyError"
  ELSE "ok"

\* The CoworkingNetwork constructor call has not run yet.
InitCwn ==
  /\ args \in CwnArgs
  /\ pc = "new"
  /\ node = EmptyDict
  /\ adj = EmptyDict
  /\ biadj_matrix = None
  /\ biadj_ix = None
  /\ out = Returned("none", None, None)

\* CoworkingNetwork.__init__ raises.
CwnConstructFails ==
  /\ pc = "new"
  /\ CwnInitOutcome(args) # "ok"
  /\ pc' = "failed"
  /\ out' = Raised("CoworkingNetwork.__init__", None, CwnInitOutcome(args))
  /\ UNCHANGED <<args, node, adj, biadj_matrix, biadj_ix>>

\* CoworkingNetwork.__init__ returns.
CwnConstructOk ==
  /\ pc = "new"
  /\ CwnInitOutcome(args) = "ok"
  /\ LET mapped == ApplyNamesMap(args.cliques[1], args.namesMap)
         cliques == [i \in DOMAIN mapped |-> UniqueNames(mapped[i])]
     IN /\ node' = CwnBuiltNode(cliques)
        /\ adj' = CwnBuiltAdj(cliques)
  /\ pc' = "ready"
  /\ out' = Returned("CoworkingNetwork.__init__", None, None)
  /\ UNCHANGED <<args, biadj_matrix, biadj_ix>>

NextCwn == CwnConstructFails \/ CwnConstructOk

SpecCwn == InitCwn /\ [][NextCwn]_vars

\* The cliques as the graph sees their names (after name normalization).
ArgCliques == ApplyNamesMap(args.cliques[1], args.namesMap)

\* The cliques that contain name n (a clique counts once).
CliquesWith(n) == {i \in DOMAIN ArgCliques : n \in Range(ArgCliques[i])}

\* C12: a constructed CoworkingNetwork has a node for every name of every
\* clique, names that never have a co-worker included; a node's count is the
\* number of cliques containing the name, repeats inside a clique counted
\* once; no name is joined to itself.
C12_CliqueNodesAndCounts ==
  (pc = "ready" /\ out.op = "CoworkingNetwork.__init__") =>
    /\ DOMAIN node = UNION {Range(ArgCliques[i]) : i \in DOMAIN ArgCliques}
    /\ \A n \in DOMAIN node : node[n] = [count |-> Cardinality(CliquesWith(n))]
    /\ \A n \in DOMAIN adj : n \notin DOMAIN adj[n]

\* Built from the cliques [['c3','c3'], ['c3','c3']]: c3 only ever appears
\* repeated in its own clique; it is a node without neighbours, and its
\* count is 2, the number of cliques (it is listed four times).
C12_Witness ==
  /\ pc = "ready"
  /\ out.op = "CoworkingNetwork.__init__"
  /\ args.namesMap = None
  /\ args.cliques[1] = <<(<<"c3", "c3">>), (<<"c3", "c3">>)>>
  /\ node = [n \in {"c3"} |-> [count |-> 2]]
  /\ adj = [n \in {"c3"} |-> EmptyDict]

(***************************************************************************)
(* Projections without a threshold; queries as read-only operations        *)
(***************************************************************************)

\* Some node of the set shares a neighbour with another node of the store.
\* On a store whose edges all join a species and a collector that other node
\* is in the same partition; on a store that reuses an id in both roles it
\* need not be.
SharesWithSomeNode(P) ==
  \E u \in P : \E v \in DOMAIN node \ {u} : Common(u, v) # {}

\* The last call was project(P, 'additive_weighting') without a threshold.
C13_Case ==
  /\ out.op = "project"
  /\ out.arg[2] = "additive_weighting"
  /\ out.arg[3] = None

\* C13 as stated: project(P, 'additive_weighting') without a threshold
\* fails and returns no graph, for every store and both partitions, stores in
\* which no two nodes of P share a neighbour included.
C13_AsStated == C13_Case => (out.raised # "" /\ out.ret = None)

\* C13: on every store the constructor and removals can produce, stores that
\* reuse an id in both roles included, project(P, 'additive_weighting')
\* without a threshold fails with TypeError and returns no graph exactly when
\* some node of P shares a neighbour with another node of the store (it has a
\* two-hop neighbour); otherwise (the empty store included) it returns the
\* graph of P's nodes with their attributes and no edge.
C13_NoThresholdFailsOnSharedNeighbour ==
  C13_Case =>
    LET P == PartitionNodes(out.arg[1])
    IN IF SharesWithSomeNode(P)
       THEN out.raised = "TypeError" /\ out.ret = None
       ELSE /\ out.raised = ""
            /\ out.ret.nodes = P
            /\ out.ret.data = [n \in P |-> node[n]]
            /\ DOMAIN out.ret.edges = {}

\* The call failed on the store of species=['s1','c1'],
\* collectors=[['c1'],['c2']]: s1 is the only species node, and it shares
\* the neighbour c1 with the collector node c2.
C13_Witness ==
  /\ C13_Case
  /\ out.arg[1] = "species"
  /\ out.raised = "TypeError"
  /\ PartitionNodes("species") = {"s1"}
  /\ PartitionNodes("collectors") = {"c1", "c2"}
  /\ Common("s1", "c2") = {"c1"}

\* What getSpeciesBag(c) returns or raises in the current state.
SpeciesBagNow(c) ==
  IF GetFails THEN GetError
  ELSE IF c \notin DOMAIN IxAfterGet[1] THEN "KeyError"
  ELSE <<MatrixAfterGet[2], MatrixAfterGet[3][IxAfterGet[1][c] + 1]>>

\* A step of getSpeciesBag, getInterestVector or project leaves the store's
\* nodes, edges and counts as they are, leaves a cache that exists as it is
\* (ids, order, cells, index), and does not change what getSpeciesBag
\* returns for any id.
C14_QueryStep ==
  (out'.op \in {"getSpeciesBag", "getInterestVector", "project"}) =>
    /\ node' = node
    /\ adj' = adj
    /\ biadj_matrix # None => (biadj_matrix' = biadj_matrix /\ biadj_ix' = biadj_ix)
    /\ \A c \in Ids : SpeciesBagNow(c)' = SpeciesBagNow(c)

\* C14: queries and projections are read-only: no call to getSpeciesBag,
\* getInterestVector or project (any rule, any threshold) changes the
\* store's nodes, edges or counts, nor an existing cached matrix; the
\* binarization of simple_weighting acts on a copy, so getSpeciesBag returns
\* the same count vector before and after any projection.
C14_QueriesReadOnly == [][C14_QueryStep]_vars

\* A simple_weighting projection has returned and the cache still holds the
\* count 2 of the edge (c1,s1); the projection counted s1 once.
C14_Witness ==
  /\ out.op = "project"
  /\ out.raised = ""
  /\ out.arg[1] = "collectors"
  /\ out.arg[2] = "simple_weighting"
  /\ EdgeCountNow("c1", "s1") = 2
  /\ biadj_matrix # None
  /\ SpeciesBagNow("c1") = <<(<<"s1">>), (<<2>>)>>
  /\ {"c1", "c2"} \in DOMAIN out.ret.edges
  /\ out.ret.edges[{"c1", "c2"}] = [num |-> 1, den |-> 1, root |-> 1]

====
